---- MODULE Spec2Model ----
(***************************************************************************)
(* State-machine model of blender_render_script.py: the shader-graph       *)
(* texture binder (replace_texture_in_nodes), the material walker          *)
(* (apply_textures_to_all_materials), the Cycles device selection block    *)
(* and the top-level phase sequence of one invocation.                     *)
(*                                                                         *)
(* bpy is the environment.  Its behaviour that the script relies on is     *)
(* modelled as follows:                                                    *)
(*   - a node tree is a sequence of nodes (iteration order = creation      *)
(*     order) and a set of links; an input socket holds at most one link,  *)
(*     so links.new onto an occupied input replaces the old link;          *)
(*   - bpy.data.images is a sequence of assets (filepath, colorspace);     *)
(*   - any bpy call that the script wraps in try/except may raise.         *)
(***************************************************************************)
EXTENDS Integers, Sequences, FiniteSets, TLC

\* ---------------------------------------------------------------- bounds
\* Largest number of material slots of one scene object.
MaxSlots == 1
\* Largest number of bpy exceptions escaping from the binder in one walk.
MaxRaises == 1

\* ------------------------------------------------------------- constants
curtain_objects == <<"cur_1", "cur_2">>

\* Keys of texture_paths in insertion order (dict iteration order).
TexKeys == <<"diffuse", "normal", "roughness", "specular">>

RoleSet == {TexKeys[i] : i \in DOMAIN TexKeys}

NoInput == "<none>"

Min(S) == CHOOSE x \in S : \A y \in S : x <= y

\* ------------------------------------------------------- input resolution
input_mapping(tex_key) ==
    CASE tex_key = "diffuse"   -> "Base Color"
      [] tex_key = "normal"    -> "Normal"
      [] tex_key = "roughness" -> "Roughness"
      [] tex_key = "specular"  -> "Specular IOR Level"

\* The fallback lists with Specular tried before Metallic.
fallback_mapping_SpecularFirst(tex_key) ==
    CASE tex_key = "specular"  -> <<"Specular", "Metallic", "Specular IOR Level">>
      [] tex_key = "diffuse"   -> <<"Base Color", "Albedo">>
      [] tex_key = "roughness" -> <<"Roughness">>
      [] tex_key = "normal"    -> <<"Normal">>

fallback_mapping(tex_key) ==
    CASE tex_key = "specular"  -> <<"Metallic", "Specular", "Specular IOR Level">>
      [] tex_key = "diffuse"   -> <<"Base Color", "Albedo">>
      [] tex_key = "roughness" -> <<"Roughness">>
      [] tex_key = "normal"    -> <<"Normal">>

\* The for/else over the fallback list: the first fallback the root exposes.
FirstFallback(fallbacks, inputs) ==
    LET hits == {i \in DOMAIN fallbacks : fallbacks[i] \in inputs}
    IN  IF hits = {} THEN NoInput ELSE fallbacks[Min(hits)]

\* target_input as it stands at line 108, or NoInput when line 106 returns.
ResolveInput(tex_key, inputs) ==
    IF input_mapping(tex_key) \in inputs
    THEN input_mapping(tex_key)
    ELSE FirstFallback(fallback_mapping(tex_key), inputs)

\* ------------------------------------------------------------ node graphs
\* node.name.startswith(f"{tex_key}_") over the node names of the model.
NameHasRolePrefix(name, tex_key) ==
    name \in {tex_key \o "_texture", tex_key \o "_normal_map", tex_key \o "_detail"}

TextureNodeName(tex_key) == tex_key \o "_texture"

NormalMapNodeName(tex_key) == tex_key \o "_normal_map"

NewNode(type, name) == [type |-> type, name |-> name, image |-> 0, inputs |-> {}]

\* The first Principled BSDF of the tree, 0 when there is none.
principled_node(nodes) ==
    LET hits == {i \in DOMAIN nodes : nodes[i].type = "BSDF_PRINCIPLED"}
    IN  IF hits = {} THEN 0 ELSE Min(hits)

\* The TEX_IMAGE node linked into input `target` of node p, 0 when there is none.
ConnectedTexture(mat, p, target) ==
    LET hits == {l.from : l \in {k \in mat.links :
                     /\ k.to = p /\ k.sock = target
                     /\ mat.nodes[k.from].type = "TEX_IMAGE"}}
    IN  IF hits = {} THEN 0 ELSE Min(hits)

\* The first NORMAL_MAP node whose name starts with the role prefix, else 0.
FindNormalMap(nodes, tex_key) ==
    LET hits == {i \in DOMAIN nodes : /\ nodes[i].type = "NORMAL_MAP"
                                      /\ NameHasRolePrefix(nodes[i].name, tex_key)}
    IN  IF hits = {} THEN 0 ELSE Min(hits)

\* links.new(from.outputs[..], to.inputs[sock]): the input keeps one link.
links_new(links, from, to, sock) ==
    {l \in links : ~(l.to = to /\ l.sock = sock)}
        \cup {[from |-> from, to |-> to, sock |-> sock]}

\* ------------------------------------------------------------ image assets
\* The first asset of bpy.data.images with this filepath, 0 when there is none.
ExistingImage(imgs, path) ==
    LET hits == {i \in DOMAIN imgs : imgs[i].filepath = path}
    IN  IF hits = {} THEN 0 ELSE Min(hits)

ColorSpaceFor(tex_key) ==
    IF tex_key \in {"normal", "roughness", "specular"} THEN "Non-Color" ELSE "sRGB"

\* images.load without the scan of lines 156-159: every bind loads afresh.
ResolveImage_AlwaysLoad(imgs, path) ==
    [imgs |-> Append(imgs, [filepath |-> path, colorspace |-> "sRGB"]),
     img |-> Len(imgs) + 1, loaded |-> TRUE]

\* Lines 155-166: reuse the asset with this filepath or load it (append).
\* Result: the registry and the index of new_img.
ResolveImage(imgs, path) ==
    LET e == ExistingImage(imgs, path)
    IN  IF e # 0
        THEN [imgs |-> imgs, img |-> e, loaded |-> FALSE]
        ELSE [imgs |-> Append(imgs, [filepath |-> path, colorspace |-> "sRGB"]),
              img |-> Len(imgs) + 1, loaded |-> TRUE]

\* Lines 171-177: the tag written on new_img after it is assigned.
TagImage(imgs, img, tex_key) ==
    [imgs EXCEPT ![img].colorspace = ColorSpaceFor(tex_key)]

\* The colorspace written in the load branch only: a reused asset keeps its tag.
LoadAndAssign_TagOnLoad(mat, imgs, tn, tex_key, path, status) ==
    IF status = "missing"
    THEN [mat |-> mat, imgs |-> imgs, ret |-> "False"]
    ELSE IF ExistingImage(imgs, path) = 0 /\ status = "unreadable"
    THEN [mat |-> mat, imgs |-> imgs, ret |-> "False"]
    ELSE LET r == ResolveImage(imgs, path)
         IN  [mat  |-> [mat EXCEPT !.nodes[tn].image = r.img],
              imgs |-> IF r.loaded THEN TagImage(r.imgs, r.img, tex_key) ELSE r.imgs,
              ret  |-> "True"]

\* Lines 151-188.  status: "ok", "missing" (os.path.exists is false) or
\* "unreadable" (the file exists and images.load raises).
LoadAndAssign(mat, imgs, tn, tex_key, path, status) ==
    IF status = "missing"
    THEN [mat |-> mat, imgs |-> imgs, ret |-> "False"]
    ELSE IF ExistingImage(imgs, path) = 0 /\ status = "unreadable"
    THEN [mat |-> mat, imgs |-> imgs, ret |-> "False"]
    ELSE LET r == ResolveImage(imgs, path)
         IN  [mat  |-> [mat EXCEPT !.nodes[tn].image = r.img],
              imgs |-> TagImage(r.imgs, r.img, tex_key),
              ret  |-> "True"]

\* ------------------------------------------------------------- the binder
\* exc names the bpy graph call that raises in this call of the binder:
\* "none", "new_tex" (line 119), "new_nm" (line 135), "link1" (line 140 or
\* 145), "link2" (line 141).  A call the binder does not reach cannot raise.

\* Lines 108-121: texture_node, found through the resolved input or created.
FindOrCreateTexture(mat, p, target, tex_key, exc) ==
    LET found == ConnectedTexture(mat, p, target)
    IN  IF found # 0
        THEN [mat |-> mat, tn |-> found, raised |-> FALSE]
        ELSE IF exc = "new_tex"
        THEN [mat |-> mat, tn |-> 0, raised |-> TRUE]
        ELSE [mat |-> [mat EXCEPT !.nodes =
                          Append(@, NewNode("TEX_IMAGE", TextureNodeName(tex_key)))],
              tn |-> Len(mat.nodes) + 1, raised |-> FALSE]

\* Lines 126-137: normal_map_node, found by name prefix or created.
FindOrCreateNormalMap(mat, tex_key, exc) ==
    LET found == FindNormalMap(mat.nodes, tex_key)
    IN  IF found # 0
        THEN [mat |-> mat, nm |-> found, raised |-> FALSE]
        ELSE IF exc = "new_nm"
        THEN [mat |-> mat, nm |-> 0, raised |-> TRUE]
        ELSE [mat |-> [mat EXCEPT !.nodes =
                          Append(@, NewNode("NORMAL_MAP", NormalMapNodeName(tex_key)))],
              nm |-> Len(mat.nodes) + 1, raised |-> FALSE]

\* Lines 139-141: sampler -> decoder -> root's Normal input.
ConnectNormal(mat, p, tn, nm, exc) ==
    IF exc = "link1"
    THEN [mat |-> mat, raised |-> TRUE]
    ELSE LET m1 == [mat EXCEPT !.links = links_new(@, tn, nm, "Color")]
         IN  IF exc = "link2"
             THEN [mat |-> m1, raised |-> TRUE]
             ELSE [mat |-> [m1 EXCEPT !.links = links_new(@, nm, p, "Normal")],
                   raised |-> FALSE]

\* Line 145: sampler -> the resolved input of the root.
ConnectDirect(mat, p, target, tn, exc) ==
    IF exc = "link1"
    THEN [mat |-> mat, raised |-> TRUE]
    ELSE [mat |-> [mat EXCEPT !.links = links_new(@, tn, p, target)],
          raised |-> FALSE]

\* Lines 123-149.
Connect(mat, p, target, tn, tex_key, exc) ==
    IF tex_key = "normal"
    THEN LET n == FindOrCreateNormalMap(mat, tex_key, exc)
         IN  IF n.raised
             THEN [mat |-> n.mat, raised |-> TRUE]
             ELSE ConnectNormal(n.mat, p, tn, n.nm, exc)
    ELSE ConnectDirect(mat, p, target, tn, exc)

\* The binder creating its sampler before it resolves the input: a role
\* without any exposed input leaves a new node behind.
replace_texture_in_nodes_CreateFirst(mat, imgs, tex_key, path, status, exc) ==
    LET p == principled_node(mat.nodes)
        Out(m, i, r, t, g) == [mat |-> m, imgs |-> i, ret |-> r, tn |-> t, target |-> g]
    IN  IF ~mat.use_nodes THEN Out(mat, imgs, "False", 0, NoInput)
        ELSE IF p = 0 THEN Out(mat, imgs, "False", 0, NoInput)
        ELSE LET target == ResolveInput(tex_key, mat.nodes[p].inputs)
             IN  IF target = NoInput
                 THEN Out([mat EXCEPT !.nodes =
                              Append(@, NewNode("TEX_IMAGE", TextureNodeName(tex_key)))],
                          imgs, "None", 0, NoInput)
                 ELSE LET t == FindOrCreateTexture(mat, p, target, tex_key, exc)
                      IN  IF t.raised THEN Out(t.mat, imgs, "raise", 0, target)
                          ELSE LET c == Connect(t.mat, p, target, t.tn, tex_key, exc)
                               IN  IF c.raised THEN Out(c.mat, imgs, "raise", t.tn, target)
                                   ELSE LET a == LoadAndAssign(c.mat, imgs, t.tn,
                                                               tex_key, path, status)
                                        IN  Out(a.mat, a.imgs, a.ret, t.tn, target)

\* replace_texture_in_nodes(material, tex_key, texture_file_path).
\* ret: "True", "False", "None" (the bare returns of lines 82/106/149) or
\* "raise" (an exception leaves the function).  tn: texture_node, 0 when the
\* function left before it had one.  target: target_input, NoInput when the
\* function left before resolving it or could not resolve it.
replace_texture_in_nodes(mat, imgs, tex_key, path, status, exc) ==
    LET p == principled_node(mat.nodes)
        Out(m, i, r, t, g) == [mat |-> m, imgs |-> i, ret |-> r, tn |-> t, target |-> g]
    IN  IF ~mat.use_nodes THEN Out(mat, imgs, "False", 0, NoInput)
        ELSE IF p = 0 THEN Out(mat, imgs, "False", 0, NoInput)
        ELSE LET target == ResolveInput(tex_key, mat.nodes[p].inputs)
             IN  IF target = NoInput THEN Out(mat, imgs, "None", 0, NoInput)
                 ELSE LET t == FindOrCreateTexture(mat, p, target, tex_key, exc)
                      IN  IF t.raised THEN Out(t.mat, imgs, "raise", 0, target)
                          ELSE LET c == Connect(t.mat, p, target, t.tn, tex_key, exc)
                               IN  IF c.raised THEN Out(c.mat, imgs, "raise", t.tn, target)
                                   ELSE LET a == LoadAndAssign(c.mat, imgs, t.tn,
                                                               tex_key, path, status)
                                        IN  Out(a.mat, a.imgs, a.ret, t.tn, target)

ExcPoints == {"new_tex", "new_nm", "link1", "link2"}

\* ------------------------------------------------------------------ state
VARIABLES
    \* the scene (bpy.data) and the command line
    objects,            \* curtain object index -> [kind, slots]; slot 0 = empty
    mats,               \* material id -> [use_nodes, nodes, links]
    images,             \* bpy.data.images
    texture_paths,      \* tex_key -> file path
    path_status,        \* file path -> "ok" | "missing" | "unreadable"
    camera_present,     \* bpy.data.objects.get("Camera.006") is not None
    use_gpu, use_denoising, adaptive_sampling, samples,
    \* apply_textures_to_all_materials
    oi, si, ri,         \* loop positions: object, slot, tex_key (0: not in a slot)
    success_count, total_count,
    log,                \* the binds attempted so far, in order, each with its
                        \* result and the target_input it resolved
    last,               \* the latest bind: material, tex_key, result, texture_node
    raises,             \* exceptions caught at line 218 so far
    \* Cycles preferences and scene settings
    devices,            \* cycles_prefs.devices: the type of each device
    dev_use,            \* device.use of each device
    compute_device_type, scene_device, denoiser, gpu_found,
    fi,                 \* position in available_types
    probed,             \* the families whose loop body was entered
    raised_in,          \* the families whose loop body raised
    render_cfg,         \* the settings of lines 338-359
    \* the run: program position, calls of bpy.ops.render.render, and how the
    \* script ended ("running", "completed", "exception", "sys_exit_1")
    pc, renders, outcome

sceneVars == <<objects, texture_paths, path_status, camera_present,
               use_gpu, use_denoising, adaptive_sampling, samples, devices>>
walkVars == <<oi, si, ri, success_count, total_count, log, last, raises>>
graphVars == <<mats, images>>
deviceVars == <<dev_use, compute_device_type, scene_device, denoiser, gpu_found,
                fi, probed, raised_in>>
runVars == <<render_cfg, pc, renders, outcome>>
vars == <<sceneVars, walkVars, graphVars, deviceVars, runVars>>

\* ------------------------------------------------------------ the walker
\* obj and obj.type == 'MESH' (line 199)
IsMesh(o) == o <= Len(curtain_objects) /\ objects[o].kind = "MESH"

Slots(o) == objects[o].slots

\* The walker stands on a tex_key of a non-empty slot (lines 210-219).
AtBind ==
    /\ pc = "walk" /\ IsMesh(oi) /\ si <= Len(Slots(oi))
    /\ Slots(oi)[si] # 0 /\ ri \in DOMAIN TexKeys

\* A break out of the tex_key loop when a bind did not succeed.
AdvanceRole_BreakOnFailure ==
    IF ri = Len(TexKeys) \/ last'.ret # "True"
    THEN ri' = 0 /\ si' = si + 1 /\ oi' = oi
    ELSE ri' = ri + 1 /\ si' = si /\ oi' = oi

AdvanceRole ==
    IF ri = Len(TexKeys)
    THEN ri' = 0 /\ si' = si + 1 /\ oi' = oi
    ELSE ri' = ri + 1 /\ si' = si /\ oi' = oi

\* total_count incremented after the call instead of before it: a raising
\* bind is not counted.
BindStep_CountAfterCall(exc) ==
    LET m == Slots(oi)[si]
        k == TexKeys[ri]
        r == replace_texture_in_nodes(mats[m], images, k, texture_paths[k],
                                      path_status[texture_paths[k]], exc)
    IN  /\ (exc = "none") = (r.ret # "raise")
        /\ mats' = [mats EXCEPT ![m] = r.mat]
        /\ images' = r.imgs
        /\ total_count' = IF r.ret = "raise" THEN total_count ELSE total_count + 1
        /\ success_count' = IF r.ret = "True" THEN success_count + 1
                                              ELSE success_count
        /\ raises' = IF r.ret = "raise" THEN raises + 1 ELSE raises
        /\ log' = Append(log, [obj |-> oi, slot |-> si, mat |-> m,
                               tex_key |-> k, ret |-> r.ret, target |-> r.target])
        /\ last' = [mat |-> m, tex_key |-> k, ret |-> r.ret, tn |-> r.tn]
        /\ AdvanceRole

\* One iteration of the for loop of line 210, with the bind run by exc.
BindStep(exc) ==
    LET m == Slots(oi)[si]
        k == TexKeys[ri]
        r == replace_texture_in_nodes(mats[m], images, k, texture_paths[k],
                                      path_status[texture_paths[k]], exc)
    IN  /\ (exc = "none") = (r.ret # "raise")
        /\ mats' = [mats EXCEPT ![m] = r.mat]
        /\ images' = r.imgs
        /\ total_count' = total_count + 1
        /\ success_count' = IF r.ret = "True" THEN success_count + 1
                                              ELSE success_count
        /\ raises' = IF r.ret = "raise" THEN raises + 1 ELSE raises
        /\ log' = Append(log, [obj |-> oi, slot |-> si, mat |-> m,
                               tex_key |-> k, ret |-> r.ret, target |-> r.target])
        /\ last' = [mat |-> m, tex_key |-> k, ret |-> r.ret, tn |-> r.tn]
        /\ AdvanceRole

\* Lines 211-217: the bind returns (True, False or None).
WalkBind ==
    /\ AtBind
    /\ BindStep("none")
    /\ UNCHANGED <<sceneVars, deviceVars, runVars>>

\* Lines 211-213, 218-219: a bpy call of the bind raises, the walker catches.
WalkBindRaise ==
    /\ AtBind
    /\ raises < MaxRaises
    /\ \E exc \in ExcPoints : BindStep(exc)
    /\ UNCHANGED <<sceneVars, deviceVars, runVars>>

\* Lines 202-208: a non-empty slot; node-based shading is switched on.
WalkEnterMaterial ==
    /\ pc = "walk" /\ IsMesh(oi) /\ si <= Len(Slots(oi))
    /\ Slots(oi)[si] # 0 /\ ri = 0
    /\ mats' = [mats EXCEPT ![Slots(oi)[si]].use_nodes = TRUE]
    /\ ri' = 1
    /\ UNCHANGED <<sceneVars, oi, si, success_count, total_count, log, last,
                   raises, images, deviceVars, runVars>>

\* Lines 220-221: an empty slot.
WalkEmptySlot ==
    /\ pc = "walk" /\ IsMesh(oi) /\ si <= Len(Slots(oi))
    /\ Slots(oi)[si] = 0 /\ ri = 0
    /\ si' = si + 1
    /\ UNCHANGED <<sceneVars, oi, ri, success_count, total_count, log, last,
                   raises, graphVars, deviceVars, runVars>>

\* Line 201: the slots of the object are exhausted.
WalkNextObject ==
    /\ pc = "walk" /\ IsMesh(oi) /\ si > Len(Slots(oi))
    /\ oi' = oi + 1 /\ si' = 1
    /\ UNCHANGED <<sceneVars, ri, success_count, total_count, log, last,
                   raises, graphVars, deviceVars, runVars>>

\* Lines 222-223: the object is missing or is not a mesh.
WalkSkipObject ==
    /\ pc = "walk" /\ oi <= Len(curtain_objects) /\ ~IsMesh(oi)
    /\ oi' = oi + 1 /\ si' = 1
    /\ UNCHANGED <<sceneVars, ri, success_count, total_count, log, last,
                   raises, graphVars, deviceVars, runVars>>

\* Lines 225-251: the walk returns its tally; summary and debug output.
WalkReturn ==
    /\ pc = "walk" /\ oi > Len(curtain_objects)
    /\ pc' = "camera"
    /\ UNCHANGED <<sceneVars, walkVars, graphVars, deviceVars,
                   render_cfg, renders, outcome>>

NextWalk ==
    \/ WalkEnterMaterial
    \/ WalkBind
    \/ WalkBindRaise
    \/ WalkEmptySlot
    \/ WalkNextObject
    \/ WalkSkipObject
    \/ WalkReturn

\* ------------------------------------------------------ device selection
available_types == <<"OPTIX", "CUDA", "OPENCL", "HIP">>

FamilySet == {available_types[i] : i \in DOMAIN available_types}

\* exc names the statement of the try block (lines 286-318) that raises in
\* this iteration: at is "none", "set_type" (287), "get_devices" (288),
\* "enable" (301/304, at device k of the list), "set_device" (306) or
\* "set_denoiser" (312/315).
Exc(at, k) == [at |-> at, k |-> k]

ProbeExcs ==
    {Exc(a, 0) : a \in {"set_type", "get_devices", "set_device", "set_denoiser"}}
        \cup {Exc("enable", k) : k \in DOMAIN devices}

\* Lines 299-304 up to (not including) device `upto`: use = (type matches).
EnableLoop(use, device_type, upto) ==
    [i \in DOMAIN use |-> IF i < upto THEN devices[i] = device_type ELSE use[i]]

\* Lines 311-316.
DenoiserFor(device_type, old) ==
    IF device_type = "OPTIX" /\ use_denoising THEN "OPTIX"
    ELSE IF use_denoising THEN "OPENIMAGEDENOISE"
    ELSE old

\* The iteration without the break of line 318: the loop goes on to the
\* families after a configured one.
ProbeBody_NoBreak(c, device_type, exc) ==
    LET R(st, raised, broke) == [c |-> st, raised |-> raised, broke |-> broke]
        c1 == [c EXCEPT !.cdt = device_type]
        type_devices == {i \in DOMAIN devices : devices[i] = device_type}
        c2 == [c1 EXCEPT !.use = EnableLoop(c1.use, device_type, Len(devices) + 1)]
        c3 == [c2 EXCEPT !.dev = "GPU", !.found = TRUE]
        c4 == [c3 EXCEPT !.den = DenoiserFor(device_type, c3.den)]
    IN  IF exc.at = "set_type" THEN R(c, TRUE, FALSE)
        ELSE IF exc.at = "get_devices" THEN R(c1, TRUE, FALSE)
        ELSE IF type_devices = {} THEN R(c1, FALSE, FALSE)
        ELSE IF exc.at = "enable"
        THEN R([c1 EXCEPT !.use = EnableLoop(c1.use, device_type, exc.k)], TRUE, FALSE)
        ELSE IF exc.at = "set_device" THEN R(c2, TRUE, FALSE)
        ELSE IF exc.at = "set_denoiser" /\ use_denoising THEN R(c3, TRUE, FALSE)
        ELSE R(c4, FALSE, FALSE)

\* One iteration of the loop of line 285 for device_type, from the Cycles
\* state c = [cdt, use, dev, den, found].  Result: the state it leaves,
\* whether it raised (line 319) and whether it left by break (line 318).
ProbeBody(c, device_type, exc) ==
    LET R(st, raised, broke) == [c |-> st, raised |-> raised, broke |-> broke]
        c1 == [c EXCEPT !.cdt = device_type]
        type_devices == {i \in DOMAIN devices : devices[i] = device_type}
        c2 == [c1 EXCEPT !.use = EnableLoop(c1.use, device_type, Len(devices) + 1)]
        c3 == [c2 EXCEPT !.dev = "GPU", !.found = TRUE]
        c4 == [c3 EXCEPT !.den = DenoiserFor(device_type, c3.den)]
    IN  IF exc.at = "set_type" THEN R(c, TRUE, FALSE)
        ELSE IF exc.at = "get_devices" THEN R(c1, TRUE, FALSE)
        ELSE IF type_devices = {} THEN R(c1, FALSE, FALSE)
        ELSE IF exc.at = "enable"
        THEN R([c1 EXCEPT !.use = EnableLoop(c1.use, device_type, exc.k)], TRUE, FALSE)
        ELSE IF exc.at = "set_device" THEN R(c2, TRUE, FALSE)
        ELSE IF exc.at = "set_denoiser" /\ use_denoising THEN R(c3, TRUE, FALSE)
        ELSE R(c4, FALSE, TRUE)

CyclesState ==
    [cdt |-> compute_device_type, use |-> dev_use, dev |-> scene_device,
     den |-> denoiser, found |-> gpu_found]

\* The loop step of lines 285-321 under exc.
ProbeStep(exc) ==
    LET t == available_types[fi]
        r == ProbeBody(CyclesState, t, exc)
    IN  /\ (exc.at = "none") = ~r.raised
        /\ compute_device_type' = r.c.cdt
        /\ dev_use' = r.c.use
        /\ scene_device' = r.c.dev
        /\ denoiser' = r.c.den
        /\ gpu_found' = r.c.found
        /\ probed' = probed \cup {t}
        /\ raised_in' = IF r.raised THEN raised_in \cup {t} ELSE raised_in
        /\ fi' = fi + 1
        /\ pc' = IF r.broke \/ fi = Len(available_types) THEN "after_probe" ELSE "probe"

\* ------------------------------------------------------- the top level
\* Lines 254-263: the render camera; the engine is set to Cycles.
CameraFound ==
    /\ pc = "camera" /\ camera_present
    /\ pc' = "device"
    /\ UNCHANGED <<sceneVars, walkVars, graphVars, deviceVars,
                   render_cfg, renders, outcome>>

\* The script going on to the device selection without a camera.
CameraMissing_Continue ==
    /\ pc = "camera" /\ ~camera_present
    /\ pc' = "device"
    /\ UNCHANGED <<sceneVars, walkVars, graphVars, deviceVars,
                   render_cfg, renders, outcome>>

\* Line 259: the script raises.
CameraMissing ==
    /\ pc = "camera" /\ ~camera_present
    /\ pc' = "exit" /\ outcome' = "exception"
    /\ UNCHANGED <<sceneVars, walkVars, graphVars, deviceVars, render_cfg, renders>>

\* Lines 333-335.
UseCpu ==
    /\ pc = "device" /\ ~use_gpu
    /\ scene_device' = "CPU"
    /\ pc' = "settings"
    /\ UNCHANGED <<sceneVars, walkVars, graphVars, dev_use, compute_device_type,
                   denoiser, gpu_found, fi, probed, raised_in,
                   render_cfg, renders, outcome>>

\* Lines 266-283: the device list is printed and refreshed (an error of the
\* refresh is swallowed); the loop starts.
GpuStart ==
    /\ pc = "device" /\ use_gpu
    /\ gpu_found' = FALSE /\ fi' = 1
    /\ pc' = "probe"
    /\ UNCHANGED <<sceneVars, walkVars, graphVars, dev_use, compute_device_type,
                   scene_device, denoiser, probed, raised_in,
                   render_cfg, renders, outcome>>

\* Lines 285-318: one family probed without an exception.
ProbeFamily ==
    /\ pc = "probe"
    /\ ProbeStep(Exc("none", 0))
    /\ UNCHANGED <<sceneVars, walkVars, graphVars, render_cfg, renders, outcome>>

\* Lines 285-321: a statement of the try block raises; continue.
ProbeFamilyRaise ==
    /\ pc = "probe"
    /\ \E exc \in ProbeExcs : ProbeStep(exc)
    /\ UNCHANGED <<sceneVars, walkVars, graphVars, render_cfg, renders, outcome>>

\* The fallback without line 326: the scene device is left as it was.
GpuFallback_NoSceneDevice ==
    /\ pc = "after_probe" /\ ~gpu_found
    /\ compute_device_type' = "NONE"
    /\ dev_use' = [i \in DOMAIN dev_use |-> devices[i] = "CPU"]
    /\ pc' = "settings"
    /\ UNCHANGED <<sceneVars, walkVars, graphVars, scene_device, denoiser, gpu_found,
                   fi, probed, raised_in, render_cfg, renders, outcome>>

\* Lines 323-332: no family was configured.
GpuFallback ==
    /\ pc = "after_probe" /\ ~gpu_found
    /\ compute_device_type' = "NONE"
    /\ scene_device' = "CPU"
    /\ dev_use' = [i \in DOMAIN dev_use |-> devices[i] = "CPU"]
    /\ pc' = "settings"
    /\ UNCHANGED <<sceneVars, walkVars, graphVars, denoiser, gpu_found, fi,
                   probed, raised_in, render_cfg, renders, outcome>>

\* Line 323 with gpu_found set: nothing to do.
GpuKept ==
    /\ pc = "after_probe" /\ gpu_found
    /\ pc' = "settings"
    /\ UNCHANGED <<sceneVars, walkVars, graphVars, deviceVars,
                   render_cfg, renders, outcome>>

Max(a, b) == IF a >= b THEN a ELSE b

\* The render settings saved in the scene file, before lines 338-359 run.
SceneSettings ==
    [samples |-> 0, preview_samples |-> 0, use_adaptive_sampling |-> FALSE,
     use_denoising |-> FALSE, file_format |-> "scene", color_mode |-> "scene"]

\* Lines 337-359.
ConfigureRender ==
    /\ pc = "settings"
    /\ render_cfg' = [samples |-> samples,
                      preview_samples |-> Max(32, samples \div 4),
                      use_adaptive_sampling |-> adaptive_sampling,
                      use_denoising |-> use_denoising,
                      file_format |-> "PNG", color_mode |-> "RGB"]
    /\ pc' = "render"
    /\ UNCHANGED <<sceneVars, walkVars, graphVars, deviceVars, renders, outcome>>

\* Lines 362-365: the render returns; the script ends.
RenderOk ==
    /\ pc = "render"
    /\ renders' = renders + 1
    /\ pc' = "exit" /\ outcome' = "completed"
    /\ UNCHANGED <<sceneVars, walkVars, graphVars, deviceVars, render_cfg>>

\* A failed render tried again instead of sys.exit(1).
RenderFail_Retry ==
    /\ pc = "render"
    /\ renders' = renders + 1
    /\ pc' = "render"
    /\ UNCHANGED <<sceneVars, walkVars, graphVars, deviceVars, render_cfg, outcome>>

\* Lines 362-364, 366-370: the render raises; sys.exit(1).
RenderFail ==
    /\ pc = "render"
    /\ renders' = renders + 1
    /\ pc' = "exit" /\ outcome' = "sys_exit_1"
    /\ UNCHANGED <<sceneVars, walkVars, graphVars, deviceVars, render_cfg>>

NextDevice ==
    \/ UseCpu
    \/ GpuStart
    \/ ProbeFamily
    \/ ProbeFamilyRaise
    \/ GpuFallback
    \/ GpuKept
    \/ ConfigureRender
    \/ RenderOk
    \/ RenderFail

Next ==
    \/ WalkEnterMaterial
    \/ WalkBind
    \/ WalkBindRaise
    \/ WalkEmptySlot
    \/ WalkNextObject
    \/ WalkSkipObject
    \/ WalkReturn
    \/ CameraFound
    \/ CameraMissing
    \/ UseCpu
    \/ GpuStart
    \/ ProbeFamily
    \/ ProbeFamilyRaise
    \/ GpuFallback
    \/ GpuKept
    \/ ConfigureRender
    \/ RenderOk
    \/ RenderFail

\* ------------------------------------------------------------ the scenes
\* Input names of the Principled BSDF: Blender 4.x, Blender 3.x, and roots
\* with other input sets.
Inputs4x == {"Base Color", "Metallic", "Roughness", "Specular IOR Level", "Normal"}
Inputs3x == {"Base Color", "Metallic", "Specular", "Roughness", "Normal"}
InputsSpecularOnly == {"Base Color", "Specular", "Roughness", "Normal"}
InputsAlbedo == {"Albedo", "Roughness"}

Principled(inputs) ==
    [type |-> "BSDF_PRINCIPLED", name |-> "Principled BSDF", image |-> 0,
     inputs |-> inputs]

Link(from, to, sock) == [from |-> from, to |-> to, sock |-> sock]

Material(use_nodes, nodes, links) ==
    [use_nodes |-> use_nodes, nodes |-> nodes, links |-> links]

\* A fresh material of each root, without texture nodes.
MatPlain(inputs) == Material(TRUE, <<Principled(inputs)>>, {})

\* Node-based shading switched off; the tree is there.
MatNodesOff == Material(FALSE, <<Principled(Inputs4x)>>, {})

\* No Principled BSDF in the tree.
MatNoRoot == Material(TRUE, <<NewNode("EMISSION", "Emission")>>, {})

\* One authored sampler feeding both Base Color and Roughness.
MatSharedSampler ==
    Material(TRUE, <<Principled(Inputs4x), NewNode("TEX_IMAGE", "Image Texture")>>,
             {Link(2, 1, "Base Color"), Link(2, 1, "Roughness")})

\* An authored normal chain (decoder named by Blender) and a procedural
\* node on Roughness.
MatAuthored ==
    Material(TRUE, <<NewNode("TEX_IMAGE", "Image Texture"), Principled(Inputs4x),
                     NewNode("NORMAL_MAP", "Normal Map"), NewNode("TEX_NOISE", "Noise")>>,
             {Link(1, 3, "Color"), Link(3, 2, "Normal"), Link(4, 2, "Roughness")})

\* Slot lists of a mesh: up to MaxSlots slots, each empty (0) or a material.
SlotLists == UNION {[1..n -> 0..2] : n \in 0..MaxSlots}

ObjectChoices ==
    {[kind |-> "absent", slots |-> <<>>], [kind |-> "CURVE", slots |-> <<>>]}
        \cup {[kind |-> "MESH", slots |-> sl] : sl \in SlotLists}

\* The second curtain: missing, not a mesh, or a mesh of at most one slot.
SecondObjectChoices == {o \in ObjectChoices : Len(o.slots) <= 1}

\* The two curtains of a scene, in the order of curtain_objects.
ObjectPairs == {<<a, b>> : a \in ObjectChoices, b \in SecondObjectChoices}

Asset(path, tag) == [filepath |-> path, colorspace |-> tag]

PathTable(d, n, r, s) ==
    [k \in RoleSet |-> CASE k = "diffuse" -> d [] k = "normal" -> n
                         [] k = "roughness" -> r [] k = "specular" -> s]

DistinctPaths == PathTable("d.png", "n.png", "r.png", "s.png")

AllOk == [p \in {"d.png", "n.png", "r.png", "s.png", "x.png"} |-> "ok"]

MatsModern == <<MatPlain(Inputs4x), MatPlain(Inputs3x)>>
MatsShared == <<MatSharedSampler, MatNoRoot>>
MatsAuthored == <<MatAuthored, MatPlain(InputsAlbedo)>>
MatsLegacy == <<MatNodesOff, MatPlain(InputsSpecularOnly)>>

Scenario(m, paths, status, imgs) ==
    [mats |-> m, paths |-> paths, status |-> status, images |-> imgs]

\* The materials (ids 1 and 2), the texture files and the image registry of
\* a scene.
WalkScenarios ==
    { Scenario(MatsModern, DistinctPaths, AllOk, <<>>),
      Scenario(MatsModern, DistinctPaths, [AllOk EXCEPT !["n.png"] = "missing"], <<>>),
      Scenario(MatsShared, DistinctPaths, AllOk, <<>>),
      Scenario(MatsAuthored, DistinctPaths, AllOk, <<>>),
      Scenario(MatsAuthored, DistinctPaths,
               [AllOk EXCEPT !["d.png"] = "unreadable"], <<>>),
      \* the scene file already holds the specular file, tagged for display
      Scenario(MatsLegacy, DistinctPaths, [AllOk EXCEPT !["s.png"] = "unreadable"],
               <<Asset("scene.png", "sRGB"), Asset("s.png", "sRGB")>>),
      \* one file given for two roles
      Scenario(MatsModern, PathTable("x.png", "n.png", "x.png", "s.png"), AllOk, <<>>),
      Scenario(MatsShared, PathTable("d.png", "x.png", "r.png", "x.png"),
               [AllOk EXCEPT !["r.png"] = "missing"], <<>>) }

NoBind == [mat |-> 0, tex_key |-> "", ret |-> "", tn |-> 0]

\* What the script has not touched yet: the walk at its start, no render.
InitRun ==
    /\ oi = 1 /\ si = 1 /\ ri = 0
    /\ success_count = 0 /\ total_count = 0
    /\ log = <<>> /\ last = NoBind /\ raises = 0
    /\ gpu_found = FALSE /\ fi = 1 /\ probed = {} /\ raised_in = {}
    /\ render_cfg = SceneSettings
    /\ pc = "walk" /\ renders = 0 /\ outcome = "running"

\* Device and render inputs held fixed where only the walk is examined.
InitPlainDevice ==
    /\ camera_present = TRUE
    /\ use_gpu = FALSE /\ use_denoising = TRUE /\ adaptive_sampling = TRUE
    /\ samples = 128
    /\ devices = <<"CPU">> /\ dev_use = <<TRUE>>
    /\ compute_device_type = "NONE" /\ scene_device = "CPU"
    /\ denoiser = "OPENIMAGEDENOISE"

InitWalk ==
    /\ objects \in ObjectPairs
    /\ \E a \in WalkScenarios :
          /\ mats = a.mats
          /\ texture_paths = a.paths
          /\ path_status = a.status
          /\ images = a.images
    /\ InitPlainDevice
    /\ InitRun

SpecWalk == InitWalk /\ [][NextWalk]_vars

\* Every set of input names a shader root may expose, over the names the
\* binder knows.
InputNames ==
    {"Base Color", "Albedo", "Normal", "Roughness", "Specular IOR Level",
     "Specular", "Metallic"}

\* Two mesh objects sharing one material whose root exposes any subset of
\* InputNames: every role is resolved twice against the same root.
InitResolve ==
    /\ objects = [o \in DOMAIN curtain_objects |-> [kind |-> "MESH", slots |-> <<1>>]]
    /\ \E inputs \in SUBSET InputNames : mats = <<MatPlain(inputs), MatNoRoot>>
    /\ texture_paths = DistinctPaths /\ path_status = AllOk /\ images = <<>>
    /\ InitPlainDevice
    /\ InitRun

NextResolve ==
    \/ WalkEnterMaterial
    \/ WalkBind
    \/ WalkBindRaise
    \/ WalkNextObject
    \/ WalkReturn

SpecResolve == InitResolve /\ [][NextResolve]_vars

\* Largest number of entries of cycles_prefs.devices.
MaxDevices == 2

DeviceTypes == {"CPU", "OPTIX", "CUDA", "OPENCL", "HIP", "METAL"}

DeviceLists == UNION {[1..n -> DeviceTypes] : n \in 0..MaxDevices}

\* The state at line 261 of a run whose scene holds neither curtain object:
\* the walk found nothing to bind and the camera was found.
InitDevice ==
    /\ objects = [o \in DOMAIN curtain_objects |-> [kind |-> "absent", slots |-> <<>>]]
    /\ mats = MatsModern
    /\ texture_paths = DistinctPaths /\ path_status = AllOk /\ images = <<>>
    /\ camera_present = TRUE
    /\ use_gpu \in BOOLEAN /\ use_denoising \in BOOLEAN
    /\ adaptive_sampling = TRUE /\ samples = 128
    /\ devices \in DeviceLists
    /\ dev_use \in [DOMAIN devices -> BOOLEAN]
    /\ compute_device_type = "NONE"
    /\ scene_device \in {"CPU", "GPU"}
    /\ denoiser = "OPENIMAGEDENOISE"
    /\ oi = Len(curtain_objects) + 1 /\ si = 1 /\ ri = 0
    /\ success_count = 0 /\ total_count = 0
    /\ log = <<>> /\ last = NoBind /\ raises = 0
    /\ gpu_found = FALSE /\ fi = 1 /\ probed = {} /\ raised_in = {}
    /\ render_cfg = SceneSettings
    /\ pc = "device" /\ renders = 0 /\ outcome = "running"

SpecDevice == InitDevice /\ [][NextDevice]_vars

\* ----------------------------------------------------- whole invocations
\* Scene objects of the whole-run specification: a shared material on both
\* curtains; an empty slot and a second material; a missing object and a
\* non-mesh object.
RunObjects ==
    { <<[kind |-> "MESH", slots |-> <<1>>], [kind |-> "MESH", slots |-> <<1>>]>>,
      <<[kind |-> "MESH", slots |-> <<0>>], [kind |-> "MESH", slots |-> <<2>>]>>,
      <<[kind |-> "absent", slots |-> <<>>], [kind |-> "CURVE", slots |-> <<>>]>> }

RunScenarios ==
    { Scenario(MatsModern, DistinctPaths, [AllOk EXCEPT !["n.png"] = "missing"], <<>>),
      Scenario(MatsShared, DistinctPaths, AllOk, <<>>) }

\* Command-line render arguments: [samples, adaptive_sampling].
RunRenderArgs ==
    { [samples |-> 1, adaptive |-> FALSE], [samples |-> 4096, adaptive |-> TRUE] }

\* use_gpu, use_denoising and the device list with the flags saved in the
\* preferences.
RunMachines ==
    { [use_gpu |-> FALSE, use_denoising |-> TRUE, devices |-> <<"CPU">>, use |-> <<FALSE>>],
      [use_gpu |-> TRUE, use_denoising |-> FALSE, devices |-> <<"CPU">>, use |-> <<FALSE>>],
      [use_gpu |-> TRUE, use_denoising |-> TRUE, devices |-> <<"CPU", "CUDA", "OPTIX">>,
       use |-> <<TRUE, FALSE, FALSE>>],
      [use_gpu |-> TRUE, use_denoising |-> TRUE, devices |-> <<"HIP", "CPU">>,
       use |-> <<FALSE, TRUE>>] }

\* The state after argument parsing (lines 6-41), the scene file loaded.
Init ==
    /\ objects \in RunObjects
    /\ \E a \in RunScenarios :
          /\ mats = a.mats
          /\ texture_paths = a.paths
          /\ path_status = a.status
          /\ images = a.images
    /\ camera_present \in BOOLEAN
    /\ \E r \in RunRenderArgs : samples = r.samples /\ adaptive_sampling = r.adaptive
    /\ \E m \in RunMachines :
          /\ use_gpu = m.use_gpu /\ use_denoising = m.use_denoising
          /\ devices = m.devices /\ dev_use = m.use
    /\ compute_device_type = "NONE" /\ scene_device = "CPU"
    /\ denoiser = "OPENIMAGEDENOISE"
    /\ InitRun

Spec == Init /\ [][Next]_vars

\* ================================================================ claims
\* ------------------------------------------------------------------- C1
\* The binds of tex_key k on material m that ran to a return.
ReturnedBefore(m, k) ==
    \E i \in DOMAIN log : /\ log[i].mat = m /\ log[i].tex_key = k
                          /\ log[i].ret # "raise"

\* C1: node-count idempotence of the binder.  Once a bind of a role on a
\* material with a Principled BSDF root has returned, every later bind of the
\* same role on the same material (same file path) leaves the number of nodes
\* of the graph as it was: the sampler and, for normal, the decoder are
\* found and reused, none is created.  Stated for walks in which no bpy
\* call has raised.
C1_RebindCreatesNoNode ==
    [][ (/\ AtBind
         /\ raises = 0
         /\ principled_node(mats[Slots(oi)[si]].nodes) # 0
         /\ ReturnedBefore(Slots(oi)[si], TexKeys[ri]))
        => Len(mats'[Slots(oi)[si]].nodes) = Len(mats[Slots(oi)[si]].nodes) ]_vars

\* ------------------------------------------------------------------- C6
\* Non-empty material slots of the target objects that exist and are meshes.
NonEmptySlots(o) ==
    IF IsMesh(o) THEN Cardinality({s \in DOMAIN Slots(o) : Slots(o)[s] # 0}) ELSE 0

\* C6: role coverage.  When the walk has ended total_count is 4 times the
\* number of non-empty slots of the existing mesh objects cur_1 and cur_2,
\* whatever the binds did (success, failure, exception); and
\* 0 <= success_count <= total_count in every state.
C6_RoleCoverage ==
    /\ 0 <= success_count /\ success_count <= total_count
    /\ pc # "walk" => total_count = 4 * (NonEmptySlots(1) + NonEmptySlots(2))

\* The walk ended after an empty slot on cur_1 and, on cur_2, one material
\* whose binds succeeded, failed and raised.
C6_Witness ==
    /\ pc = "camera"
    /\ objects[1].kind = "MESH" /\ objects[1].slots = <<0>>
    /\ total_count = 4 /\ success_count = 2 /\ raises = 1

\* ------------------------------------------------------------------- C7
\* The result a bind has by its own inputs alone: the material's root and
\* its inputs, the role, and the file behind the role's path.
OwnOutcome(m, k) ==
    LET p == principled_node(mats[m].nodes)
        path == texture_paths[k]
    IN  IF p = 0 THEN "False"
        ELSE IF (({input_mapping(k)} \cup {fallback_mapping(k)[i] :
                     i \in DOMAIN fallback_mapping(k)})
                   \cap mats[m].nodes[p].inputs) = {}
        THEN "None"
        ELSE IF path_status[path] = "missing" THEN "False"
        ELSE IF path_status[path] = "unreadable"
                /\ \A i \in DOMAIN images : images[i].filepath # path
        THEN "False"
        ELSE "True"

\* The (object, slot, tex_key) units the walk owes an attempt.
OwedUnits ==
    {<<o, s, k>> \in (DOMAIN curtain_objects) \X (1..MaxSlots) \X RoleSet :
        IsMesh(o) /\ s \in DOMAIN Slots(o) /\ Slots(o)[s] # 0}

LoggedUnits == {<<log[i].obj, log[i].slot, log[i].tex_key>> : i \in DOMAIN log}

SlotEntries(o, s) == {i \in DOMAIN log : log[i].obj = o /\ log[i].slot = s}

PrimaryInputs == {input_mapping(k) : k \in RoleSet}

\* C7: per-unit failure isolation.  (a) When the walk has ended, every owed
\* (object, slot, role) unit was attempted exactly once, whatever failed or
\* raised before it.  (b) A bind that returns has the result its own inputs
\* give, whatever the other binds did.  (c) When the only fault is that the
\* normal-role file does not exist, a material whose root exposes the four
\* primary inputs yields normal = failure and the other three = success:
\* 3 successes out of its 4 attempts.
C7_FailureIsolation ==
    /\ pc # "walk" => (LoggedUnits = OwedUnits /\ Len(log) = Cardinality(OwedUnits))
    /\ \A i \in DOMAIN log :
          log[i].ret # "raise" => log[i].ret = OwnOutcome(log[i].mat, log[i].tex_key)
    /\ (/\ path_status[texture_paths["normal"]] = "missing"
        /\ \A k \in RoleSet \ {"normal"} : path_status[texture_paths[k]] = "ok")
       => \A o \in DOMAIN curtain_objects, s \in 1..MaxSlots :
            (/\ Cardinality(SlotEntries(o, s)) = 4
             /\ \A i \in SlotEntries(o, s) :
                   /\ log[i].ret # "raise"
                   /\ PrimaryInputs \subseteq
                        mats[log[i].mat].nodes[principled_node(mats[log[i].mat].nodes)].inputs)
            => /\ \A i \in SlotEntries(o, s) :
                     (log[i].ret = "True") = (log[i].tex_key # "normal")
               /\ Cardinality({i \in SlotEntries(o, s) : log[i].ret = "True"}) = 3

\* The normal file is missing; the first bind raised, the normal bind
\* failed, and every later bind on both objects was attempted and succeeded
\* or failed by its own inputs: 3 of 4 on the second material visit.
C7_Witness ==
    /\ pc = "camera" /\ Len(log) = 8
    /\ log[1].ret = "raise"
    /\ log[2].tex_key = "normal" /\ log[2].ret = "False"
    /\ log[3].ret = "True" /\ log[4].ret = "True"
    /\ PrimaryInputs \subseteq
          mats[log[5].mat].nodes[principled_node(mats[log[5].mat].nodes)].inputs
    /\ success_count = 5

\* ------------------------------------------------------------------- C8
\* C8: color-space tagging.  Right after a successful bind of a role the
\* image assigned to the sampler node the bind used is tagged sRGB for
\* diffuse and Non-Color for normal, roughness and specular, whether the
\* asset was loaded by this bind or reused from the registry.
C8_ColorSpaceTag ==
    last.ret = "True" =>
        LET img == mats[last.mat].nodes[last.tn].image
        IN  /\ img \in DOMAIN images
            /\ images[img].colorspace =
                  (IF last.tex_key = "diffuse" THEN "sRGB" ELSE "Non-Color")

\* A specular bind succeeded on a file that cannot be loaded: the asset came
\* from the registry, where it was tagged sRGB.
C8_Witness ==
    /\ last.ret = "True" /\ last.tex_key = "specular"
    /\ path_status[texture_paths["specular"]] = "unreadable"
    /\ images[mats[last.mat].nodes[last.tn].image].colorspace = "Non-Color"

HasDevices(t) == \E i \in DOMAIN devices : devices[i] = t

FamilyIndex(t) == CHOOSE i \in DOMAIN available_types : available_types[i] = t

\* The first family of S in probing order.
FirstFamily(S) ==
    CHOOSE t \in S : \A u \in S : FamilyIndex(t) <= FamilyIndex(u)

FamiliesAfter(t) == {u \in FamilySet : FamilyIndex(u) > FamilyIndex(t)}

SelectionEnded == pc \in {"settings", "render", "exit"} /\ use_gpu

\* The configuration in which family w won.
WonBy(w) ==
    /\ scene_device = "GPU"
    /\ \A i \in DOMAIN devices : dev_use[i] = (devices[i] = w)
    /\ probed \cap FamiliesAfter(w) = {}

\* C3 as stated: when use_gpu is true and some family has a device, device
\* selection ends with the first family (in the order OPTIX, CUDA, OPENCL,
\* HIP) that has a device enabled, every other device disabled, the scene
\* device GPU, and no later family probed.
C3_FirstNonEmptyWins_AsStated ==
    (SelectionEnded /\ \E t \in FamilySet : HasDevices(t))
        => WonBy(FirstFamily({t \in FamilySet : HasDevices(t)}))

\* C3 amended: the same for the first family that has a device and whose
\* processing raised no error (a family whose processing raised is passed
\* over by the handler of lines 319-321).
C3_FirstNonEmptyWins ==
    (SelectionEnded /\ \E t \in FamilySet : HasDevices(t) /\ t \notin raised_in)
        => WonBy(FirstFamily({t \in FamilySet : HasDevices(t) /\ t \notin raised_in}))

\* CUDA won although an OPTIX device is listed (its processing raised); the
\* OPTIX device was switched off.
C3_Witness ==
    /\ SelectionEnded /\ pc = "settings"
    /\ devices = <<"OPTIX", "CUDA">>
    /\ raised_in = {"OPTIX"}
    /\ compute_device_type = "CUDA" /\ dev_use = <<FALSE, TRUE>>

\* ------------------------------------------------------------------- C4
WinnersLeft == {t \in FamilySet : HasDevices(t) /\ t \notin raised_in}

\* C4: probe-error equivalence.  A family whose processing raised counts as
\* a family without devices: when device selection has ended, the chosen
\* family, the use flags, the scene device and gpu_found are those of the
\* first family that has devices and did not raise, or those of the CPU
\* fallback when there is no such family.
C4_ProbeErrorAsEmpty ==
    SelectionEnded =>
        IF WinnersLeft # {}
        THEN /\ compute_device_type = FirstFamily(WinnersLeft)
             /\ \A i \in DOMAIN devices :
                   dev_use[i] = (devices[i] = FirstFamily(WinnersLeft))
             /\ scene_device = "GPU" /\ gpu_found
        ELSE /\ compute_device_type = "NONE"
             /\ \A i \in DOMAIN devices : dev_use[i] = (devices[i] = "CPU")
             /\ scene_device = "CPU" /\ ~gpu_found

\* ------------------------------------------------------------------- C5
\* C5: software fallback.  When use_gpu is true and no device of the four
\* families is listed, device selection ends with scene device CPU, compute
\* device type NONE, every CPU device enabled and every other device
\* disabled; no exception leaves the block, and the run goes on to the
\* render, which is invoked.
C5_SoftwareFallback ==
    (use_gpu /\ \A t \in FamilySet : ~HasDevices(t)) =>
        /\ outcome # "exception"
        /\ SelectionEnded =>
              /\ scene_device = "CPU" /\ compute_device_type = "NONE"
              /\ \A i \in DOMAIN devices : dev_use[i] = (devices[i] = "CPU")
        /\ pc = "exit" => renders = 1

\* The render phase reached through the fallback, with a CPU and a Metal
\* device listed and a probe that raised on the way.
C5_Witness ==
    /\ pc = "render" /\ use_gpu
    /\ devices = <<"METAL", "CPU">>
    /\ raised_in # {}
    /\ dev_use = <<FALSE, TRUE>> /\ scene_device = "CPU"

\* ------------------------------------------------------------------- C2
RootInputs(m) == mats[m].nodes[principled_node(mats[m].nodes)].inputs

\* The name the claim gives for a role and a set of exposed input names.
ClaimedInput(k, inputs) ==
    CASE k = "diffuse" ->
            IF "Base Color" \in inputs THEN "Base Color"
            ELSE IF "Albedo" \in inputs THEN "Albedo" ELSE NoInput
      [] k = "normal" -> IF "Normal" \in inputs THEN "Normal" ELSE NoInput
      [] k = "roughness" -> IF "Roughness" \in inputs THEN "Roughness" ELSE NoInput
      [] k = "specular" ->
            IF "Specular IOR Level" \in inputs THEN "Specular IOR Level"
            ELSE IF "Metallic" \in inputs THEN "Metallic"
            ELSE IF "Specular" \in inputs THEN "Specular" ELSE NoInput

\* Every bind on a material with a root resolved the claimed input; an
\* unresolved role is a failed attempt; repeated binds agree.
ResolutionRule ==
    /\ \A i \in DOMAIN log :
          principled_node(mats[log[i].mat].nodes) # 0 =>
             /\ log[i].target = ClaimedInput(log[i].tex_key, RootInputs(log[i].mat))
             /\ log[i].target = NoInput => log[i].ret = "None"
    /\ \A i, j \in DOMAIN log :
          (log[i].mat = log[j].mat /\ log[i].tex_key = log[j].tex_key)
              => log[i].target = log[j].target
    /\ success_count = Cardinality({i \in DOMAIN log : log[i].ret = "True"})

\* C2 as stated: the resolution rule (primary name, else the first exposed
\* name of the role's fallback list, else failure; the same name on every
\* call), and in particular a root exposing Specular but not Specular IOR
\* Level resolves the specular role to Specular.
C2_InputResolution_AsStated ==
    /\ ResolutionRule
    /\ \A i \in DOMAIN log :
          (/\ log[i].tex_key = "specular"
           /\ principled_node(mats[log[i].mat].nodes) # 0
           /\ "Specular" \in RootInputs(log[i].mat)
           /\ "Specular IOR Level" \notin RootInputs(log[i].mat))
          => log[i].target = "Specular"

\* C2 amended: the resolution rule as stated, and in particular a root
\* exposing Specular but neither Specular IOR Level nor Metallic resolves
\* the specular role to Specular (with Metallic exposed the fallback list
\* gives Metallic).
C2_InputResolution ==
    /\ ResolutionRule
    /\ \A i \in DOMAIN log :
          (/\ log[i].tex_key = "specular"
           /\ principled_node(mats[log[i].mat].nodes) # 0
           /\ "Specular" \in RootInputs(log[i].mat)
           /\ "Specular IOR Level" \notin RootInputs(log[i].mat))
          => log[i].target =
                (IF "Metallic" \in RootInputs(log[i].mat) THEN "Metallic" ELSE "Specular")

\* Both calls for the specular role on a root exposing Specular but neither
\* Specular IOR Level nor Metallic resolved Specular; the diffuse role fell
\* back to Albedo and the normal role was not resolved.
C2_Witness ==
    /\ Len(log) = 8
    /\ RootInputs(1) = {"Albedo", "Roughness", "Specular"}
    /\ log[4].target = "Specular" /\ log[8].target = "Specular"
    /\ log[5].target = "Albedo" /\ log[6].ret = "None"

\* ------------------------------------------------------------------ C10
\* The phase of a program position: 1 bind all textures, 2 configure the
\* device (from the camera lookup to the end of device selection),
\* 3 configure the render settings, 4 render, 5 exit.
Phase(at) ==
    CASE at = "walk" -> 1
      [] at \in {"camera", "device", "probe", "after_probe"} -> 2
      [] at = "settings" -> 3
      [] at = "render" -> 4
      [] at = "exit" -> 5

\* C10: phase ordering of one invocation.  Every step stays in its phase or
\* moves to a later one, and to the next one unless it exits; node graphs
\* and images change only in the bind phase, device state only in the device
\* phase, the render settings only in the settings phase; the render is
\* invoked only in the render phase, at most once, and its step ends the
\* run (completed, or sys.exit(1) on failure: no retry); nothing changes
\* after the exit.
C10_PhaseOrder ==
    [][ /\ Phase(pc') >= Phase(pc)
        /\ Phase(pc') \in {Phase(pc), Phase(pc) + 1, 5}
        /\ pc # "exit"
        /\ Phase(pc) # 1 => UNCHANGED <<graphVars, walkVars>>
        /\ Phase(pc) # 2 => UNCHANGED deviceVars
        /\ Phase(pc) # 3 => render_cfg' = render_cfg
        /\ Phase(pc) # 4 => renders' = renders
        /\ Phase(pc) = 4 => /\ renders' = renders + 1 /\ renders' <= 1
                            /\ pc' = "exit"
                            /\ outcome' \in {"completed", "sys_exit_1"}
        /\ outcome' = "sys_exit_1" => (pc = "render" /\ pc' = "exit")
      ]_vars

\* A run that bound textures, configured a GPU family, set the render
\* settings, rendered once, failed and left by sys.exit(1).
C10_Witness ==
    /\ pc = "exit" /\ outcome = "sys_exit_1" /\ renders = 1
    /\ success_count > 0 /\ gpu_found /\ render_cfg.file_format = "PNG"

\* ------------------------------------------------------------------ C11
\* C11: camera precondition.  Without the object Camera.006 the render is
\* never invoked and no statement after the camera lookup runs: the script
\* stops at the lookup with an uncaught exception, whatever the bind tally,
\* use_gpu and the device list are.  With the camera present a run that has
\* ended has invoked the render, a tally of zero successes included.
C11_CameraPrecondition ==
    /\ ~camera_present =>
          /\ renders = 0
          /\ pc \in {"walk", "camera", "exit"}
          /\ render_cfg = SceneSettings
          /\ pc = "exit" => outcome = "exception"
    /\ (camera_present /\ pc = "exit") =>
          /\ renders = 1
          /\ outcome \in {"completed", "sys_exit_1"}

\* A run on a GPU machine that bound textures and stopped at the camera
\* lookup.
C11_Witness ==
    /\ ~camera_present /\ pc = "exit" /\ outcome = "exception"
    /\ success_count > 0 /\ use_gpu /\ Len(devices) > 1

\* A run with the camera present in which no bind succeeded and the render
\* completed.
C11_ZeroTallyRendered ==
    /\ camera_present /\ pc = "exit" /\ outcome = "completed"
    /\ total_count > 0 /\ success_count = 0 /\ renders = 1

\* ------------------------------------------------------------------ C12
\* The nodes linked into input sock of node n.
Feeders(mat, n, sock) == {l.from : l \in {k \in mat.links : k.to = n /\ k.sock = sock}}

\* Node tn is a sampler whose assigned image is the file of role k.
SamplesOwnFile(mat, tn, k) ==
    /\ mat.nodes[tn].type = "TEX_IMAGE"
    /\ mat.nodes[tn].image # 0
    /\ images[mat.nodes[tn].image].filepath = texture_paths[k]

\* The resolved input of role k has one incoming link, from a sampler of the
\* role's own file: through a Normal Map decoder for the normal role (whose
\* Color input has one incoming link), directly for the others.
CorrectFeed(m, k) ==
    LET mat == mats[m]
        p == principled_node(mat.nodes)
        target == ResolveInput(k, mat.nodes[p].inputs)
        src == Feeders(mat, p, target)
    IN  /\ Cardinality(src) = 1
        /\ \E n \in src :
              IF k = "normal"
              THEN /\ mat.nodes[n].type = "NORMAL_MAP"
                   /\ Cardinality(Feeders(mat, n, "Color")) = 1
                   /\ \E tn \in Feeders(mat, n, "Color") : SamplesOwnFile(mat, tn, k)
              ELSE SamplesOwnFile(mat, n, k)

\* The entries of the log that belong to material m, in order.
BindsOf(m) == SelectSeq(log, LAMBDA e : e.mat = m)

\* The walker has just finished a pass over material m in which the four
\* roles were bound and all four binds returned True.
FullPassSucceeded(m) ==
    LET b == BindsOf(m)
    IN  /\ Len(b) >= 4 /\ Len(b) % 4 = 0
        /\ ~(AtBind /\ last.mat = m /\ ri > 1)
        /\ \A j \in (Len(b) - 3)..Len(b) : b[j].ret = "True"
        /\ {b[j].tex_key : j \in (Len(b) - 3)..Len(b)} = RoleSet

DistinctFiles == \A j, k \in RoleSet : j # k => texture_paths[j] # texture_paths[k]

\* C12: correct feed after a full pass.  For every material whose root
\* exposes the four primary inputs, bound with four distinct files in a pass
\* whose four binds returned True, every role's resolved input is fed
\* (through the decoder for normal) by a sampler holding the role's own
\* file, over exactly one incoming link.
C12_CorrectFeed ==
    \A m \in DOMAIN mats :
        ( /\ principled_node(mats[m].nodes) # 0
          /\ PrimaryInputs \subseteq RootInputs(m)
          /\ DistinctFiles
          /\ FullPassSucceeded(m) )
        => \A k \in RoleSet : CorrectFeed(m, k)

\* ------------------------------------------------------------------ C13
\* The bind of role k on material m leaves replace_texture_in_nodes at
\* line 60 (no Principled BSDF) or at line 106 (no input name exposed).
EarlyFailure(m, k) ==
    \/ principled_node(mats[m].nodes) = 0
    \/ ResolveInput(k, RootInputs(m)) = NoInput

\* C13: early-failure frame condition.  A bind (a step that appends to the
\* log) on a material without a Principled BSDF, or for a role none of
\* whose input names the root exposes, returns False or None without
\* raising, and leaves every material's nodes, links and assigned images,
\* the image registry with its tags, and the success count as they were.
C13_EarlyFailureFrame ==
    [][ (Len(log') = Len(log) + 1
            /\ EarlyFailure(log'[Len(log')].mat, log'[Len(log')].tex_key))
        => /\ log'[Len(log')].ret \in {"False", "None"}
           /\ log'[Len(log')].target = NoInput
           /\ mats' = mats
           /\ images' = images
           /\ success_count' = success_count
           /\ total_count' = total_count + 1
      ]_vars

\* The last bind found no input for its role on a material that already
\* carries a sampler with an image, the registry holding assets.
C13_Witness ==
    /\ last.mat # 0 /\ last.ret = "None"
    /\ EarlyFailure(last.mat, last.tex_key)
    /\ Len(images) > 0
    /\ \E n \in DOMAIN mats[last.mat].nodes :
          mats[last.mat].nodes[n].type = "TEX_IMAGE" /\ mats[last.mat].nodes[n].image # 0

\* The last bind stopped at a material without a Principled BSDF.
C13_NoRootReached ==
    /\ last.mat # 0 /\ last.ret = "False"
    /\ principled_node(mats[last.mat].nodes) = 0

====
